---- MODULE Spec2Model ----
(***************************************************************************)
(* The validator onboarding wizard of ol/onboard                           *)
(* (src/commands/wizard_val_cmd.rs): ValWizardCmd::run, get_autopay_batch, *)
(* save_template and write_account_json.                                   *)
(*                                                                         *)
(* One run of the wizard is a straight-line pipeline.  Each stage of       *)
(* ValWizardCmd::run is one action; pc names the stage to run next.  The   *)
(* outcome of every collaborator (prompt, network, parser, signer, miner,  *)
(* ...) is an input of its stage, drawn with \E.                           *)
(***************************************************************************)
EXTENDS Integers, Sequences, FiniteSets, TLC

\* ------------------------------------------------------------------ bounds
\* Longest autopay file, in instructions.
MaxLen == 2

\* ------------------------------------------------------- program constants
\* upstream.set_port(Some(8080))
QueryPort == 8080
\* url.set_port(Some(3030)) //web port
WebPort == 3030
\* ---------------------------------------------------------- u64 arithmetic
\* tx_cost.user_tx_timeout is a u64.  A u64 is five limbs of 15 bits, least
\* significant first, the top limb holding the four bits 60..63; products
\* wrap modulo 2^64 as u64 multiplication does in a release build.
LimbBase == 2 ^ 15
TopLimbBase == 2 ^ 4

U64FromInt(n) ==
    << n % LimbBase, (n \div LimbBase) % LimbBase,
       (n \div LimbBase) \div LimbBase, 0, 0 >>

RECURSIVE MulLimbs(_, _, _, _)
MulLimbs(a, k, i, carry) ==
    IF i > Len(a) THEN << >>
    ELSE LET p == a[i] * k + carry
             b == IF i = Len(a) THEN TopLimbBase ELSE LimbBase
         IN  << p % b >> \o MulLimbs(a, k, i + 1, p \div b)

\* a * k for a u64 a and a factor k < 2^15
U64Mul(a, k) == MulLimbs(a, k, 1, 0)

RECURSIVE U64Product(_)
U64Product(factors) ==
    IF Len(factors) = 0 THEN U64FromInt(1)
    ELSE U64Mul(U64Product(SubSeq(factors, 1, Len(factors) - 1)), factors[Len(factors)])

\* 100 * 360 * 24 * 60 * 60, "near infinite expiry" for fixtures
TestExpirationSec == U64Product(<< 100, 360, 24, 60, 60 >>)
\* 7 * 24 * 60 * 60, "a very long expiration, 7 days"
ProdExpirationSec == U64Product(<< 7, 24, 60, 60 >>)
\* Signing started one sequence number late.
SequenceNumOne == 0 + 1
\* sign_instructions(script_vec, 0, &tx_params)
StartingSequenceNum == 0
\* exit(1)
ExitMissingUrl == 1

\* ----------------------------------------------------------------- Option
None == << >>
Some(x) == << x >>
IsSome(o) == o # << >>
Unwrap(o) == o[1]

\* --------------------------------------------------------------- the data
\* The pay instructions an autopay file may list (it may repeat them).
Instr == { "pay_a", "pay_b" }

RECURSIVE SeqsUpTo(_)
SeqsUpTo(n) ==
    IF n = 0 THEN { << >> }
    ELSE LET shorter == SeqsUpTo(n - 1)
         IN  shorter \cup { Append(s, i) : s \in { t \in shorter : Len(t) = n - 1 }, i \in Instr }

\* What a file holds: nothing (absent), zero bytes (just created), the
\* body the upstream node served, a mined block, bytes that are no autopay
\* document, or an autopay document.
Absent == [kind |-> "absent", instrs |-> << >>]
ZeroBytes == [kind |-> "zero", instrs |-> << >>]
ServedBody == [kind |-> "served", instrs |-> << >>]
Opaque == [kind |-> "opaque", instrs |-> << >>]
Malformed == [kind |-> "malformed", instrs |-> << >>]
AutopayDoc(s) == [kind |-> "autopay", instrs |-> s]

\* What the operator may have put in a local autopay file, and what the
\* upstream node may serve as account.json.
LocalAutopayContents == { Absent, Malformed } \cup { AutopayDoc(s) : s \in SeqsUpTo(MaxLen) }
ServedContents == { Malformed } \cup { AutopayDoc(s) : s \in SeqsUpTo(MaxLen) }

\* The ports an operator may type in a URL.
InputPorts == { 80, 3030 }
Url(h, p, f) == [host |-> h, port |-> p, path |-> f]
SetPort(u, p) == [u EXCEPT !.port = p]
Join(u, f) == [u EXCEPT !.path = f]
PeerUrls == { Url("peer", p, "") : p \in InputPorts }
TemplateUrls == { Url("tmpl", p, "") : p \in InputPorts }

\* PathBuf values.  home_path.join(name) is <<"home", name>>.
Home == "home"
HomeJoin(name) == << Home, name >>
CustomAutopayPath == << "elsewhere", "my_autopay.json" >>
CustomGenesisPath == << "elsewhere", "genesis.blob" >>
BlockZeroPath == << Home, "blocks/block_0.json" >>
AccountJsonPath == << Home, "account.json" >>

AuthKey == "authkey"

\* ------------------------------------------------------------------ state
VARIABLES
    opts,        \* the ValWizardCmd options of this run, and IS_TEST
    pc,          \* the stage of run() to execute next
    status,      \* "running", "ok", "exit" (exit(1)) or "panic"
    outcome,     \* per stage: "pending", "ok", "skipped" or "failed"
    calls,       \* the collaborator calls made so far, in order
    written,     \* the files written by this run, in order
    disk,        \* the content of the files the run reads after writing
    peer,        \* the upstream peer handed to init_app_configs
    fetched,     \* the URL save_template fetched from
    response,    \* what the GET of save_template met: "connect_failed",
                 \* "body_failed" or "served"
    readPath,    \* the path get_autopay_batch parsed
    parsed,      \* what the autopay parser answered, once it was asked
    batch,       \* autopay_batch: Option<Vec<PayInstruction>>
    signed,      \* autopay_signed: Option<Vec<SignedTransaction>>
    txTimeout,   \* tx_params.tx_cost.user_tx_timeout handed to the signer
    strategies,  \* the genesis-sourcing strategies executed
    nodeFiles,   \* the arguments of write_node_config_files, once called
    manifest,    \* the ValConfigs written as account.json
    message      \* what the process printed when it ended early

vars == << opts, pc, status, outcome, calls, written, disk, peer, fetched, response,
           readPath, parsed, batch, signed, txTimeout, strategies, nodeFiles, manifest,
           message >>

Stages == << "credentials", "peer", "config", "template", "autopay", "keys",
             "genesis", "mining", "manifest" >>
StageSet == { Stages[i] : i \in 1 .. Len(Stages) }

\* The files whose content the run reads back.
TrackedFiles == { HomeJoin("template.json"), BlockZeroPath }

Options ==
    [ genesis_ceremony : BOOLEAN,
      upstream_peer : { None } \cup { Some(u) : u \in PeerUrls },
      template_url : { None } \cup { Some(u) : u \in TemplateUrls },
      autopay_file : { None, Some(CustomAutopayPath) },
      fetch_git_genesis : BOOLEAN,
      ci : BOOLEAN,
      prebuilt_genesis : { None, Some(CustomGenesisPath) },
      skip_mining : BOOLEAN,
      is_test : BOOLEAN ]

\* A fresh run.  The home directory may hold a block_0.json mined earlier.
Init ==
    /\ opts \in Options
    /\ pc = "credentials"
    /\ status = "running"
    /\ outcome = [s \in StageSet |-> "pending"]
    /\ calls = << >>
    /\ written = << >>
    /\ \E b \in { Absent, Opaque } :
          disk = [f \in TrackedFiles |-> IF f = BlockZeroPath THEN b ELSE Absent]
    /\ peer = None
    /\ fetched = None
    /\ response = None
    /\ readPath = None
    /\ parsed = None
    /\ batch = None
    /\ signed = None
    /\ txTimeout = None
    /\ strategies = { }
    /\ nodeFiles = None
    /\ manifest = None
    /\ message = None

\* ---------------------------------------------------------------- helpers
\* What the process prints when it ends early.
MsgMissingUrl == "ERROR: Must set a URL to query chain. Use --upstream-peer of --template-url, exiting."
\* the message of Result::unwrap and Option::unwrap, its quotes left out
MsgUnwrap == "called Result::unwrap() on an Err value"
MsgCreate == "couldn't create file"
MsgUpstream == "cannot connect to upstream node"
MsgKeyStore == "could not initialize validator key_store.json"
MsgInside == "panicked inside the collaborator"

Running(stage) == status = "running" /\ pc = stage

\* A failed stage run again instead of ending the process.
EndStageRetrying(stage, good, goesOn, how, next) ==
    /\ message' = message
    /\ outcome' = [outcome EXCEPT ![stage] = IF good THEN "ok" ELSE "failed"]
    /\ status' = "running"
    /\ pc' = IF goesOn THEN next ELSE stage

\* The end of a stage.  good: whether the stage's work succeeded; goesOn:
\* whether run() executes its next statement (a panic or exit(1) ends the
\* process); how: the message the process ends with when it does not go on.
EndStage(stage, good, goesOn, how, next) ==
    /\ message' = IF goesOn THEN message ELSE Some(how)
    /\ outcome' = [outcome EXCEPT ![stage] = IF good THEN "ok" ELSE "failed"]
    /\ status' = IF goesOn THEN "running" ELSE IF how = MsgMissingUrl THEN "exit" ELSE "panic"
    /\ pc' = IF goesOn THEN next ELSE "halted"

\* A stage whose condition is off: nothing is done.
SkipStage(stage, next) ==
    /\ message' = message
    /\ outcome' = [outcome EXCEPT ![stage] = "skipped"]
    /\ status' = "running"
    /\ pc' = next

\* Result<T, E>
Ok(v) == [ok |-> TRUE, val |-> v]
Err == [ok |-> FALSE, val |-> << >>]
Failure(why) == [ok |-> FALSE, val |-> why]

\* ------------------------------------------------------ stage 1: credentials
\* wallet::get_account_from_prompt() returns the triple or panics inside.
GetAccountFromPrompt(entered) == IF entered THEN Ok(AuthKey) ELSE Err

Credentials ==
    /\ Running("credentials")
    /\ calls' = Append(calls, "get_account_from_prompt")
    /\ \E entered \in BOOLEAN :
          LET r == GetAccountFromPrompt(entered)
          IN  EndStage("credentials", r.ok, r.ok, MsgInside, "peer")
    /\ UNCHANGED << opts, response, written, disk, peer, fetched, readPath, parsed, batch, signed,
                    txTimeout, strategies, nodeFiles, manifest >>

\* ---------------------------------------------------- stage 2: upstream peer
\* The template URL tried first, the upstream peer second.
UpstreamPreferringTemplate(o) ==
    IF IsSome(o.template_url) THEN Ok(Unwrap(o.template_url))
    ELSE IF IsSome(o.upstream_peer) THEN Ok(Unwrap(o.upstream_peer))
    ELSE Err

\* A default peer instead of exit(1).
UpstreamOrDefault(o) ==
    IF IsSome(o.upstream_peer) THEN Ok(Unwrap(o.upstream_peer))
    ELSE IF IsSome(o.template_url) THEN Ok(Unwrap(o.template_url))
    ELSE Ok(Url("localhost", QueryPort, ""))

\* self.upstream_peer.clone().unwrap_or_else(|| self.template_url.clone()
\*     .unwrap_or_else(|| { print!(..); exit(1) }))
UpstreamOrExit(o) ==
    IF IsSome(o.upstream_peer) THEN Ok(Unwrap(o.upstream_peer))
    ELSE IF IsSome(o.template_url) THEN Ok(Unwrap(o.template_url))
    ELSE Err

\* The ceremony test left out: a peer is resolved in every mode.
ResolveUpstreamPeerInEveryMode(o) ==
    LET u == UpstreamOrExit(o)
    IN  IF u.ok THEN Ok(Some(SetPort(u.val, QueryPort))) ELSE Err

\* let upstream_peer = if genesis_ceremony { None } else { ...; Some(upstream) }
ResolveUpstreamPeer(o) ==
    IF o.genesis_ceremony THEN Ok(None)
    ELSE LET u == UpstreamOrExit(o)
         IN  IF u.ok THEN Ok(Some(SetPort(u.val, QueryPort))) ELSE Err

ResolvePeer ==
    /\ Running("peer")
    /\ LET r == ResolveUpstreamPeer(opts)
       IN  /\ peer' = IF r.ok THEN r.val ELSE peer
           /\ EndStage("peer", r.ok, r.ok, MsgMissingUrl, "config")
    /\ UNCHANGED << opts, response, calls, written, disk, fetched, readPath, parsed, batch, signed,
                    txTimeout, strategies, nodeFiles, manifest >>

\* ---------------------------------------------------- stage 3: configuration
\* AppCfg::init_app_configs(..) returns the AppCfg, having written 0L.toml
\* under the node home, or panics inside.
InitAppConfigs(saved) == IF saved THEN Ok(<< HomeJoin("0L.toml") >>) ELSE Err

Configure ==
    /\ Running("config")
    /\ calls' = Append(calls, "init_app_configs")
    /\ \E saved \in BOOLEAN :
          LET r == InitAppConfigs(saved)
          IN  /\ written' = IF r.ok THEN written \o r.val ELSE written
              /\ EndStage("config", r.ok, r.ok, MsgInside, "template")
    /\ UNCHANGED << opts, response, disk, peer, fetched, readPath, parsed, batch, signed,
                    txTimeout, strategies, nodeFiles, manifest >>

\* ------------------------------------------------------- stage 4: template
\* What reqwest::blocking::get and Response::bytes may give.
ConnectFailed == [connected |-> FALSE, body |-> Err]
BodyFailed == [connected |-> TRUE, body |-> Err]
Served == [connected |-> TRUE, body |-> Ok(ServedBody)]
FetchResults == { ConnectFailed, BodyFailed, Served }

\* What a fetch result amounts to.
ResponseKind(g_res) ==
    IF ~g_res.connected THEN "connect_failed"
    ELSE IF ~g_res.body.ok THEN "body_failed"
    ELSE "served"

\* let mut url = url.to_owned(); url.set_port(Some(3030)); url.join("account.json")
TemplateFetchUrl(url) == Join(SetPort(url, WebPort), "account.json")

\* Whether the template was fetched and stored.
TemplateFetched(g_res, created, wrote) ==
    g_res.connected /\ g_res.body.ok /\ created /\ wrote

\* The fetch errors swallowed: whatever arrived, if anything, is kept.
SaveTemplateLeniently(g_res, created, wrote, d) ==
    LET g_path == HomeJoin("template.json")
    IN  IF created
        THEN [ok |-> TRUE, msg |-> "",
              disk |-> [d EXCEPT ![g_path] =
                           IF g_res.connected /\ g_res.body.ok /\ wrote
                           THEN g_res.body.val ELSE ZeroBytes],
              wrote |-> << g_path >>]
        ELSE [ok |-> TRUE, msg |-> "", disk |-> d, wrote |-> << >>]

\* save_template(url, home_path), in statement order: the GET is sent, the
\* file is created (truncated), the response is unwrapped, its body is read,
\* the body is written.  d is the disk before the call.
SaveTemplate(g_res, created, wrote, d) ==
    LET g_path == HomeJoin("template.json")
        d1 == [d EXCEPT ![g_path] = ZeroBytes]
    IN  IF ~created THEN [ok |-> FALSE, msg |-> MsgCreate, disk |-> d, wrote |-> << >>]
        ELSE IF ~g_res.connected
             THEN [ok |-> FALSE, msg |-> MsgUnwrap, disk |-> d1, wrote |-> << g_path >>]
        ELSE IF ~g_res.body.ok
             THEN [ok |-> FALSE, msg |-> MsgUpstream, disk |-> d1, wrote |-> << g_path >>]
        ELSE IF ~wrote
             THEN [ok |-> FALSE, msg |-> MsgUnwrap, disk |-> d1, wrote |-> << g_path >>]
        ELSE [ok |-> TRUE, msg |-> "", disk |-> [d EXCEPT ![g_path] = g_res.body.val],
              wrote |-> << g_path >>]

\* if let Some(url) = &self.template_url { save_template(..); }
FetchTemplate ==
    /\ Running("template")
    /\ IF IsSome(opts.template_url)
       THEN \E g_res \in FetchResults, created \in BOOLEAN, wrote \in BOOLEAN :
               LET url == TemplateFetchUrl(Unwrap(opts.template_url))
                   r == SaveTemplate(g_res, created, wrote, disk)
               IN  /\ calls' = calls \o << "reqwest_get", "File::create" >>
                   /\ fetched' = Some(url)
                   /\ response' = Some(ResponseKind(g_res))
                   /\ disk' = r.disk
                   /\ written' = written \o r.wrote
                   /\ EndStage("template", TemplateFetched(g_res, created, wrote), r.ok, r.msg,
                               "autopay")
       ELSE /\ SkipStage("template", "autopay")
            /\ UNCHANGED << calls, fetched, response, disk, written >>
    /\ UNCHANGED << opts, peer, readPath, parsed, batch, signed, txTimeout, strategies,
                    nodeFiles, manifest >>

\* -------------------------------------------------- stage 5: autopay batch
\* template.json read whether or not a template was asked for.
AutopayFileNameAlwaysTemplate(template) == "template.json"

\* let file_name = if template.is_some() { "template.json" } else { "autopay_batch.json" }
AutopayFileName(template) ==
    IF IsSome(template) THEN "template.json" ELSE "autopay_batch.json"

\* The override dropped: the file under the node home is read.
AutopayPathIgnoringOverride(template, file_path) == HomeJoin(AutopayFileName(template))

\* &file_path.clone().unwrap_or(home_path.join(file_name))
AutopayPath(template, file_path) ==
    IF IsSome(file_path) THEN Unwrap(file_path) ELSE HomeJoin(AutopayFileName(template))

\* PayInstruction::parse_autopay_instructions(path, Some(starting_epoch), None):
\* the instructions of the document, in file order, or an error when the
\* file is missing, unreadable or no autopay document.
ParseAutopayInstructions(content) ==
    IF content.kind = "autopay" THEN Ok(content.instrs) ELSE Failure(content.kind)

\* A parse failure read as an empty batch (unwrap_or_default).
UnwrapParsedOrDefault(res) == IF res.ok THEN res ELSE Ok(<< >>)

\* .unwrap() of the parse result
UnwrapParsed(res) == res

\* The early return left out.
NeverReturnsBeforeSigning(is_genesis) == FALSE

\* if is_genesis { return (Some(instr_vec), None) }
ReturnsBeforeSigning(is_genesis) == is_genesis

\* The script of one instruction, and autopay_batch_cmd::process_instructions:
\* one script per instruction, in order.
ScriptOf(i) == [script |-> "autopay_create_instruction", instruction |-> i]
ProcessInstructions(instrs) == [k \in 1 .. Len(instrs) |-> ScriptOf(instrs[k])]

\* The first instruction lost on the way to the signer.
InstructionsToSignButFirst(instr_vec) ==
    IF instr_vec = << >> THEN instr_vec ELSE Tail(instr_vec)

\* process_instructions(instr_vec.clone()): what is handed over for signing
InstructionsToSign(instr_vec) == instr_vec

\* submit_tx::get_tx_params_from_toml(..): the parameters, with the timeout
\* the configuration carries, or an error.
TxParams(t) == [user_tx_timeout |-> t, url |-> "what_url(false)", tx_type |-> "Miner"]
ResolvedTimeouts == { U64FromInt(5000), U64FromInt(604800) }
TxParamsResults == { Err } \cup { Ok(TxParams(t)) : t \in ResolvedTimeouts }

\* let tx_expiration_sec = if *IS_TEST { 100 * 360 * 24 * 60 * 60 } else { 7 * 24 * 60 * 60 }
TxExpirationSec(is_test) ==
    IF is_test THEN TestExpirationSec ELSE ProdExpirationSec

\* The assignment left out: the resolved timeout stays.
KeepResolvedTimeout(tx_params, tx_expiration_sec) == tx_params

\* tx_params.tx_cost.user_tx_timeout = tx_expiration_sec
SetUserTxTimeout(tx_params, tx_expiration_sec) ==
    [tx_params EXCEPT !.user_tx_timeout = tx_expiration_sec]

\* autopay_batch_cmd::sign_instructions(scripts, starting_sequence_num, tx_params):
\* one signed transaction per script, in order, with consecutive sequence
\* numbers and the expiration window of tx_params.
SignInstructions(scripts, starting_sequence_num, tx_params) ==
    [k \in 1 .. Len(scripts) |->
        [payload |-> scripts[k],
         sequence_number |-> starting_sequence_num + (k - 1),
         timeout |-> tx_params.user_tx_timeout]]

\* The parameters resolved before the file is parsed.
AutopayStepsResolvingFirst ==
    << "get_tx_params_from_toml", "parse_autopay_instructions",
       "process_instructions", "sign_instructions" >>

\* The collaborator calls of get_autopay_batch, in statement order.
AutopaySteps ==
    << "parse_autopay_instructions", "process_instructions",
       "get_tx_params_from_toml", "sign_instructions" >>

\* The calls made when the function stops at (or returns after) a call.
RECURSIVE CallsUpTo(_, _)
CallsUpTo(steps, last) ==
    IF steps = << >> THEN << >>
    ELSE IF Head(steps) = last THEN << last >>
    ELSE << Head(steps) >> \o CallsUpTo(Tail(steps), last)

\* get_autopay_batch(template, file_path, home_path, cfg, wallet, is_swarm,
\* is_genesis).  content: what the chosen path holds; params: what the
\* parameter resolver answers; signs: whether the signer gets through.
GetAutopayBatch(template, file_path, content, is_test, is_genesis, params, signs) ==
    LET res == ParseAutopayInstructions(content)
        unwrapped == UnwrapParsed(res)
        instr_vec == unwrapped.val
        script_vec == ProcessInstructions(InstructionsToSign(instr_vec))
        tx_params == SetUserTxTimeout(params.val, TxExpirationSec(is_test))
        txn_vec == SignInstructions(script_vec, StartingSequenceNum, tx_params)
        base == [returned |-> FALSE, msg |-> MsgUnwrap, batch |-> None, signed |-> None,
                 parsed |-> res, timeout |-> None,
                 calls |-> CallsUpTo(AutopaySteps, "parse_autopay_instructions")]
    IN  IF ~unwrapped.ok THEN base
        ELSE IF ReturnsBeforeSigning(is_genesis)
             THEN [base EXCEPT !.returned = TRUE, !.msg = "", !.batch = Some(instr_vec)]
        ELSE IF ~params.ok
             THEN [base EXCEPT !.calls = CallsUpTo(AutopaySteps, "get_tx_params_from_toml")]
        ELSE IF ~signs
             THEN [base EXCEPT !.msg = MsgInside,
                               !.timeout = Some(tx_params.user_tx_timeout),
                               !.calls = CallsUpTo(AutopaySteps, "sign_instructions")]
        ELSE [base EXCEPT !.returned = TRUE, !.msg = "",
                          !.batch = Some(instr_vec), !.signed = Some(txn_vec),
                          !.timeout = Some(tx_params.user_tx_timeout),
                          !.calls = CallsUpTo(AutopaySteps, "sign_instructions")]

\* Whether the batch was built: the file parsed and, outside the ceremony,
\* the parameters resolved and the scripts signed.
AutopayBuilt(content, is_genesis, params, signs) ==
    ParseAutopayInstructions(content).ok /\ (is_genesis \/ (params.ok /\ signs))

\* What the parser may find at a path: for template.json what the disk
\* holds, the served body being whatever document the upstream node sent;
\* for another path, whatever the operator put there.
FileAt(path, d) ==
    IF path \in DOMAIN d
    THEN (IF d[path] = ServedBody THEN ServedContents ELSE { d[path] })
    ELSE LocalAutopayContents

\* let (autopay_batch, autopay_signed) = get_autopay_batch(&self.template_url,
\*     &self.autopay_file, home_path, &app_config, &wallet, .., self.genesis_ceremony)
BuildAutopay ==
    /\ Running("autopay")
    /\ \E content \in FileAt(AutopayPath(opts.template_url, opts.autopay_file), disk),
          params \in TxParamsResults, signs \in BOOLEAN :
          LET path == AutopayPath(opts.template_url, opts.autopay_file)
              r == GetAutopayBatch(opts.template_url, opts.autopay_file,
                                   content, opts.is_test,
                                   opts.genesis_ceremony, params, signs)
          IN  /\ readPath' = Some(path)
              /\ parsed' = Some(r.parsed)
              /\ calls' = calls \o r.calls
              /\ batch' = r.batch
              /\ signed' = r.signed
              /\ txTimeout' = r.timeout
              /\ EndStage("autopay",
                          AutopayBuilt(content, opts.genesis_ceremony, params, signs),
                          r.returned, r.msg, "keys")
    /\ UNCHANGED << opts, response, written, disk, peer, fetched, strategies, nodeFiles, manifest >>

\* ------------------------------------------------- stage 6: validator keys
\* init_cmd::initialize_validator(&wallet, &app_config, base_waypoint,
\* genesis_ceremony) writes key_store.json or answers an error.
InitializeValidator(stored) == IF stored THEN Ok(<< HomeJoin("key_store.json") >>) ELSE Err

\* The result of the key initializer dropped instead of expected.
IgnoreKeyStoreResult(res) == TRUE

\* .expect("could not initialize validator key_store.json")
ExpectKeyStore(res) == res.ok

InitKeys ==
    /\ Running("keys")
    /\ calls' = Append(calls, "initialize_validator")
    /\ \E stored \in BOOLEAN :
          LET r == InitializeValidator(stored)
          IN  /\ written' = IF r.ok THEN written \o r.val ELSE written
              /\ EndStage("keys", r.ok, ExpectKeyStore(r), MsgKeyStore, "genesis")
    /\ UNCHANGED << opts, response, disk, peer, fetched, readPath, parsed, batch, signed,
                    txTimeout, strategies, nodeFiles, manifest >>

\* --------------------------------------------------------- stage 7: genesis
\* if self.fetch_git_genesis { files_cmd::get_files(..) ..
GitFetchRuns(o) == o.fetch_git_genesis
\* `if self.ci` in place of `else if self.ci`.
FixtureCopyRunsWheneverCi(o) == o.ci

\* } else if self.ci { fs::copy(get_test_genesis_blob(), ..) ..
FixtureCopyRuns(o) == ~o.fetch_git_genesis /\ o.ci
\* } and otherwise prebuilt_genesis_path stays self.prebuilt_genesis.clone()
PrebuiltDefaultRuns(o) == ~o.fetch_git_genesis /\ ~o.ci

\* A missing prebuilt path replaced by the blob under the node home.
PrebuiltGenesisPathDefaulted(o) ==
    IF GitFetchRuns(o) \/ FixtureCopyRuns(o) \/ o.prebuilt_genesis = None
    THEN Some(HomeJoin("genesis.blob"))
    ELSE o.prebuilt_genesis

\* The caller's path kept whenever there is one.
PrebuiltGenesisPathKeepingCallers(o) ==
    IF IsSome(o.prebuilt_genesis) THEN o.prebuilt_genesis
    ELSE IF GitFetchRuns(o) \/ FixtureCopyRuns(o) THEN Some(HomeJoin("genesis.blob"))
    ELSE None

\* prebuilt_genesis_path when write_node_config_files is called
PrebuiltGenesisPath(o) ==
    IF GitFetchRuns(o) THEN Some(HomeJoin("genesis.blob"))
    ELSE IF FixtureCopyRuns(o) THEN Some(HomeJoin("genesis.blob"))
    ELSE o.prebuilt_genesis

\* app_config.profile.auth_key.clone() + "-oper"
Namespace(auth_key) == << auth_key, "-oper" >>

\* The body of `if !self.genesis_ceremony { .. }`.  fetchedOk, copied,
\* configured: whether get_files, fs::copy and write_node_config_files get
\* through; get_files panics inside, the other two are unwrapped.
SourceGenesis(o, fetchedOk, copied, configured) ==
    LET gitRan == GitFetchRuns(o)
        gitOk == gitRan => fetchedOk
        fixRan == gitOk /\ FixtureCopyRuns(o)
        fixOk == fixRan => copied
        defRan == gitOk /\ fixOk /\ PrebuiltDefaultRuns(o)
        sourced == gitOk /\ fixOk
        ran == (IF gitRan THEN { "git-fetch" } ELSE { })
                 \cup (IF fixRan THEN { "fixture-copy" } ELSE { })
                 \cup (IF defRan THEN { "prebuilt-default" } ELSE { })
        wroteBlob == (gitRan /\ fetchedOk) \/ (fixRan /\ copied)
    IN  [ ok |-> sourced /\ configured,
          msg |-> IF ~gitOk THEN MsgInside ELSE MsgUnwrap,
          strategies |-> ran,
          calls |-> (IF gitRan THEN << "get_files" >> ELSE << >>)
                      \o (IF fixRan THEN << "fs::copy" >> ELSE << >>)
                      \o (IF sourced THEN << "write_node_config_files" >> ELSE << >>),
          wrote |-> (IF wroteBlob THEN << HomeJoin("genesis.blob") >> ELSE << >>)
                      \o (IF sourced /\ configured THEN << HomeJoin("node.yaml") >> ELSE << >>),
          nodeFiles |-> IF sourced
                        THEN Some([namespace |-> Namespace(AuthKey),
                                   genesis_path |-> PrebuiltGenesisPath(o),
                                   written |-> configured])
                        ELSE None ]

\* Whether the genesis was sourced and the node files written.
GenesisSourced(o, fetchedOk, copied, configured) ==
    /\ o.fetch_git_genesis => fetchedOk
    /\ (~o.fetch_git_genesis /\ o.ci) => copied
    /\ configured

\* if !self.genesis_ceremony { .. }
GenesisStage ==
    /\ Running("genesis")
    /\ IF ~opts.genesis_ceremony
       THEN \E fetchedOk \in BOOLEAN, copied \in BOOLEAN, configured \in BOOLEAN :
               LET r == SourceGenesis(opts, fetchedOk, copied, configured)
               IN  /\ calls' = calls \o r.calls
                   /\ strategies' = r.strategies
                   /\ written' = written \o r.wrote
                   /\ nodeFiles' = r.nodeFiles
                   /\ EndStage("genesis", GenesisSourced(opts, fetchedOk, copied, configured),
                               r.ok, r.msg, "mining")
       ELSE /\ SkipStage("genesis", "mining")
            /\ UNCHANGED << calls, strategies, written, nodeFiles >>
    /\ UNCHANGED << opts, response, disk, peer, fetched, readPath, parsed, batch, signed,
                    txTimeout, manifest >>

\* ---------------------------------------------------------- stage 8: mining
\* miner::block::write_genesis(&app_config) mines block zero and writes
\* block_0.json, or panics inside; its value is not used.
WriteGenesis(mined, d) ==
    IF mined THEN Ok([d EXCEPT ![BlockZeroPath] = Opaque]) ELSE Err

\* if !self.skip_mining { miner::block::write_genesis(&app_config); }
MiningStage ==
    /\ Running("mining")
    /\ IF ~opts.skip_mining
       THEN \E mined \in BOOLEAN :
               LET r == WriteGenesis(mined, disk)
               IN  /\ calls' = Append(calls, "write_genesis")
                   /\ disk' = IF r.ok THEN r.val ELSE disk
                   /\ written' = IF r.ok THEN Append(written, BlockZeroPath) ELSE written
                   /\ EndStage("mining", r.ok, r.ok, MsgInside, "manifest")
       ELSE /\ SkipStage("mining", "manifest")
            /\ UNCHANGED << calls, disk, written >>
    /\ UNCHANGED << opts, response, peer, fetched, readPath, parsed, batch, signed,
                    txTimeout, strategies, nodeFiles, manifest >>

\* -------------------------------------------------------- stage 9: manifest
\* Block::parse_block_file(path) returns the Block of the file, or panics
\* when the file cannot be opened or read.
ParseBlockFile(content) == IF content.kind = "opaque" THEN Ok("block_0") ELSE Err

\* write_account_json(json_path, wallet, wizard_config, autopay_batch,
\* autopay_signed): the block is loaded, then the manifest is created.
WriteAccountJson(d, autopay_batch, autopay_signed, created) ==
    LET block == ParseBlockFile(d[BlockZeroPath])
    IN  IF ~block.ok
        THEN [ok |-> FALSE, calls |-> << "parse_block_file" >>, manifest |-> None]
        ELSE IF ~created
        THEN [ok |-> FALSE, calls |-> << "parse_block_file", "create_manifest" >>,
              manifest |-> None]
        ELSE [ok |-> TRUE, calls |-> << "parse_block_file", "create_manifest" >>,
              manifest |-> Some([block |-> block.val, keys |-> "KeyScheme",
                                 autopay_batch |-> autopay_batch,
                                 autopay_signed |-> autopay_signed])]

ManifestStage ==
    /\ Running("manifest")
    /\ \E created \in BOOLEAN :
          LET r == WriteAccountJson(disk, batch, signed, created)
          IN  /\ calls' = calls \o r.calls
              /\ manifest' = r.manifest
              /\ written' = IF r.ok THEN Append(written, AccountJsonPath) ELSE written
              /\ outcome' = [outcome EXCEPT !["manifest"] = IF r.ok THEN "ok" ELSE "failed"]
              /\ status' = IF r.ok THEN "ok" ELSE "panic"
              /\ pc' = IF r.ok THEN "done" ELSE "halted"
              /\ message' = IF r.ok THEN message ELSE Some(MsgInside)
    /\ UNCHANGED << opts, response, disk, peer, fetched, readPath, parsed, batch, signed,
                    txTimeout, strategies, nodeFiles >>

\* ------------------------------------------------------------ specification
Next ==
    \/ Credentials
    \/ ResolvePeer
    \/ Configure
    \/ FetchTemplate
    \/ BuildAutopay
    \/ InitKeys
    \/ GenesisStage
    \/ MiningStage
    \/ ManifestStage

Spec == Init /\ [][Next]_vars

\* ------------------------------------------------------------- properties
StageIndex(stage) == CHOOSE i \in 1 .. Len(Stages) : Stages[i] = stage
LaterStages(stage) == { t \in StageSet : StageIndex(t) > StageIndex(stage) }
Called(name) == \E k \in 1 .. Len(calls) : calls[k] = name
Wrote(path) == \E k \in 1 .. Len(written) : written[k] = path

\* Nothing after the stage has run: no later stage has an outcome.
NothingAfter(stage) == \A t \in LaterStages(stage) : outcome[t] = "pending"

\* The calls that go to the network.
NetworkCalls == { "reqwest_get", "get_tx_params_from_toml", "get_files" }

\* A decimal numeral, most significant digit first, as a u64.
RECURSIVE U64FromDigits(_)
U64FromDigits(ds) ==
    IF ds = << >> THEN U64FromInt(0)
    ELSE MulLimbs(U64FromDigits(SubSeq(ds, 1, Len(ds) - 1)), 10, 1, ds[Len(ds)])

\* C1: whenever get_autopay_batch has returned outside the ceremony, the
\* signed transactions are as many as the instructions, and the k-th one
\* signs the script of the k-th instruction; the instructions are those of
\* the parsed file, in file order.
C1_SignedAlignedWithInstructions ==
    (IsSome(batch) /\ ~opts.genesis_ceremony) =>
        /\ IsSome(signed)
        /\ Unwrap(batch) = Unwrap(parsed).val
        /\ Len(Unwrap(signed)) = Len(Unwrap(batch))
        /\ \A k \in 1 .. Len(Unwrap(batch)) :
              Unwrap(signed)[k].payload = ScriptOf(Unwrap(batch)[k])

\* A batch of two different instructions was signed.
C1_Witness ==
    /\ ~opts.genesis_ceremony
    /\ IsSome(batch)
    /\ IsSome(signed)
    /\ Len(Unwrap(batch)) = 2
    /\ Unwrap(batch)[1] # Unwrap(batch)[2]

\* C2: in ceremony mode, once the autopay file has parsed, get_autopay_batch
\* has returned the parsed instructions and no signed transactions, and
\* neither the parameter resolver nor the signer was called.
C2_CeremonyReturnsUnsigned ==
    (opts.genesis_ceremony /\ IsSome(parsed) /\ Unwrap(parsed).ok) =>
        /\ batch = Some(Unwrap(parsed).val)
        /\ signed = None
        /\ txTimeout = None
        /\ ~Called("get_tx_params_from_toml")
        /\ ~Called("sign_instructions")
        /\ ~Called("process_instructions")

\* The ceremony returned the batch of an empty autopay file.
C2_Witness ==
    /\ opts.genesis_ceremony
    /\ batch = Some(<< >>)
    /\ signed = None
    /\ pc = "keys"

\* C3: the timeout handed to the signer, and carried by every signed
\* transaction, is 3110400000 under IS_TEST and 604800 otherwise.
C3_ExpirationIsFixed ==
    LET claimed == IF opts.is_test
                   THEN U64FromDigits(<< 3, 1, 1, 0, 4, 0, 0, 0, 0, 0 >>)
                   ELSE U64FromDigits(<< 6, 0, 4, 8, 0, 0 >>)
    IN  /\ IsSome(txTimeout) => Unwrap(txTimeout) = claimed
        /\ IsSome(signed) =>
              /\ IsSome(txTimeout)
              /\ \A k \in 1 .. Len(Unwrap(signed)) : Unwrap(signed)[k].timeout = claimed

\* A batch was signed under IS_TEST with the near-infinite expiration.
C3_Witness ==
    /\ opts.is_test
    /\ IsSome(signed)
    /\ Len(Unwrap(signed)) > 0
    /\ txTimeout = Some(TestExpirationSec)
    /\ TestExpirationSec # ProdExpirationSec

\* C4: in a run outside the ceremony whose genesis stage has run, exactly
\* one genesis-sourcing strategy was executed.
C4_ExactlyOneGenesisStrategy ==
    (~opts.genesis_ceremony /\ outcome["genesis"] # "pending") =>
        Cardinality(strategies) = 1

\* Both flags set, and the git fetch alone ran and got through.
C4_Witness ==
    /\ ~opts.genesis_ceremony
    /\ opts.fetch_git_genesis
    /\ opts.ci
    /\ outcome["genesis"] = "ok"
    /\ strategies = { "git-fetch" }

\* C5: with skip_mining set, the manifest stage never fails on loading the
\* block-zero proof.
C5_SkipMiningNeedsNoProof ==
    (opts.skip_mining /\ outcome["manifest"] = "failed") =>
        calls[Len(calls)] # "parse_block_file"

\* C6: when a template URL is supplied and its fetch fails, the run has
\* halted at the template stage: no later stage has run, none of their
\* collaborators was called, and no manifest exists.
C6_FailedFetchHalts ==
    (IsSome(opts.template_url) /\ outcome["template"] = "failed") =>
        /\ pc = "halted"
        /\ status = "panic"
        /\ NothingAfter("template")
        /\ ~Called("parse_autopay_instructions")
        /\ ~Called("initialize_validator")
        /\ ~Called("write_node_config_files")
        /\ ~Called("write_genesis")
        /\ ~Called("create_manifest")
        /\ manifest = None
        /\ ~Wrote(AccountJsonPath)

\* The upstream node could not be reached and the run ended there.
C6_Witness ==
    /\ IsSome(opts.template_url)
    /\ Called("reqwest_get")
    /\ outcome["template"] = "failed"
    /\ message = Some(MsgUnwrap)
    /\ pc = "halted"

C8_MissingUrlExitsBeforeConfig ==
    ( /\ ~opts.genesis_ceremony
      /\ opts.upstream_peer = None
      /\ opts.template_url = None
      /\ outcome["credentials"] = "ok"
      /\ pc # "peer" ) =>
        /\ status = "exit"
        /\ ExitMissingUrl # 0
        /\ message = Some(MsgMissingUrl)
        /\ pc = "halted"
        /\ outcome["peer"] = "failed"
        /\ NothingAfter("peer")
        /\ ~Called("init_app_configs")
        /\ written = << >>

\* The run exited for want of a URL.
C8_Witness ==
    /\ ~opts.genesis_ceremony
    /\ opts.upstream_peer = None
    /\ opts.template_url = None
    /\ status = "exit"

\* C9: when the parser rejects the autopay file, no batch is returned, in
\* either mode: the run has halted at the autopay stage, and neither key
\* initialization nor the manifest stage has run.
C9_ParseFailureIsFatal ==
    (IsSome(parsed) /\ ~Unwrap(parsed).ok) =>
        /\ batch = None
        /\ signed = None
        /\ pc = "halted"
        /\ status = "panic"
        /\ outcome["autopay"] = "failed"
        /\ NothingAfter("autopay")
        /\ ~Called("initialize_validator")
        /\ ~Called("create_manifest")
        /\ manifest = None

\* A malformed template ended a ceremony run.
C9_Witness ==
    /\ opts.genesis_ceremony
    /\ IsSome(opts.template_url)
    /\ parsed = Some(Failure("malformed"))
    /\ pc = "halted"

\* The autopay file was missing when get_autopay_batch asked for it.
AutopayFileMissing == parsed = Some(Failure("absent"))

\* C10, as claimed: when the autopay file is missing, no network call was
\* made before the parse failed.
C10_NoNetworkBeforeParseFailure ==
    AutopayFileMissing => \A k \in 1 .. Len(calls) : calls[k] \notin NetworkCalls

\* C10, amended: when the autopay file is missing (or the parser rejects it
\* for another reason), neither the parameter resolver nor the genesis fetch
\* was called before the parse failed; the template fetch was, exactly when
\* a template URL was supplied.
C10_NoResolveBeforeParseFailure ==
    (IsSome(parsed) /\ ~Unwrap(parsed).ok) =>
        /\ ~Called("get_tx_params_from_toml")
        /\ ~Called("get_files")
        /\ Called("reqwest_get") <=> IsSome(opts.template_url)
        /\ calls[Len(calls)] = "parse_autopay_instructions"

\* A missing override file ended a run outside the ceremony whose template
\* had been fetched.
C10_Witness ==
    /\ AutopayFileMissing
    /\ ~opts.genesis_ceremony
    /\ IsSome(opts.template_url)
    /\ Called("reqwest_get")
    /\ outcome["template"] = "ok"

\* C11: whenever the GET of the template met a network failure, while
\* connecting or while reading the body, the run has halted with the
\* message "cannot connect to upstream node" (template.json could be
\* created, so that nothing else went wrong).
C11_NetworkFailureNamesUpstream ==
    ( /\ IsSome(response)
      /\ Unwrap(response) \in { "connect_failed", "body_failed" }
      /\ Wrote(HomeJoin("template.json")) ) =>
        /\ pc = "halted"
        /\ message = Some(MsgUpstream)

\* The stage that writes a file.
WriterStage(path) ==
    CASE path = HomeJoin("0L.toml") -> "config"
      [] path = HomeJoin("template.json") -> "template"
      [] path = HomeJoin("key_store.json") -> "keys"
      [] path = HomeJoin("genesis.blob") -> "genesis"
      [] path = HomeJoin("node.yaml") -> "genesis"
      [] path = BlockZeroPath -> "mining"
      [] path = AccountJsonPath -> "manifest"

\* C12: once the run has ended early, every file it wrote was written by a
\* stage that completed; the stage that failed left none.
C12_AbortLeavesOnlyCompletedStages ==
    (pc = "halted") =>
        \A k \in 1 .. Len(written) : outcome[WriterStage(written[k])] = "ok"

\* How often a collaborator was called.
TimesCalled(name) == Cardinality({ k \in 1 .. Len(calls) : calls[k] = name })

\* C13: get_autopay_batch parses one path, once: the override when given,
\* else <home>/template.json when a template URL is given, else
\* <home>/autopay_batch.json.
C13_AutopayPathChoice ==
    /\ TimesCalled("parse_autopay_instructions") <= 1
    /\ IsSome(readPath) <=> Called("parse_autopay_instructions")
    /\ IsSome(readPath) =>
          Unwrap(readPath) =
             (IF opts.autopay_file # None THEN opts.autopay_file[1]
              ELSE IF opts.template_url # None THEN << "home", "template.json" >>
              ELSE << "home", "autopay_batch.json" >>)

\* The override was read although a template had been fetched.
C13_Witness ==
    /\ IsSome(opts.template_url)
    /\ IsSome(opts.autopay_file)
    /\ outcome["template"] = "ok"
    /\ readPath = Some(CustomAutopayPath)
    /\ IsSome(batch)

\* C14: in ceremony mode peer resolution succeeds with no peer, whatever
\* URLs are given, and the genesis stage does nothing; outside it the node
\* files are written once, after the genesis was sourced, under the
\* namespace <authkey>-oper.
C14_CeremonySkipsPeerAndGenesis ==
    /\ opts.genesis_ceremony =>
          /\ outcome["peer"] \in { "pending", "ok" }
          /\ peer = None
          /\ status # "exit"
          /\ outcome["genesis"] \in { "pending", "skipped" }
          /\ ~Called("get_files")
          /\ ~Called("fs::copy")
          /\ ~Called("write_node_config_files")
          /\ nodeFiles = None
          /\ strategies = { }
          /\ ~Wrote(HomeJoin("genesis.blob"))
          /\ ~Wrote(HomeJoin("node.yaml"))
    /\ ~opts.genesis_ceremony =>
          /\ TimesCalled("write_node_config_files") <= 1
          /\ outcome["genesis"] = "ok" =>
                /\ TimesCalled("write_node_config_files") = 1
                /\ Wrote(HomeJoin("node.yaml"))
          /\ Called("write_node_config_files") =>
                /\ IsSome(nodeFiles)
                /\ Unwrap(nodeFiles).namespace = << "authkey", "-oper" >>
                /\ \A k \in 1 .. Len(calls) :
                      calls[k] \in { "get_files", "fs::copy" } =>
                          \E j \in (k + 1) .. Len(calls) : calls[j] = "write_node_config_files"

\* A ceremony run given no URL at all wrote its manifest.
C14_Witness ==
    /\ opts.genesis_ceremony
    /\ opts.upstream_peer = None
    /\ opts.template_url = None
    /\ opts.fetch_git_genesis
    /\ pc = "done"
    /\ outcome["genesis"] = "skipped"

\* C15: outside the ceremony the peer handed to init_app_configs is the
\* upstream-peer option when given, the template URL otherwise, with port
\* 8080; the template is fetched from the template URL with port 3030.
C15_PeerAndTemplatePorts ==
    /\ (~opts.genesis_ceremony /\ outcome["peer"] = "ok") =>
          LET chosen == IF opts.upstream_peer # None THEN opts.upstream_peer[1]
                        ELSE opts.template_url[1]
          IN  peer = Some([host |-> chosen.host, port |-> 8080, path |-> chosen.path])
    /\ IsSome(fetched) =>
          fetched = Some([host |-> opts.template_url[1].host, port |-> 3030,
                          path |-> "account.json"])
    /\ Called("reqwest_get") <=> IsSome(fetched)

\* Both URLs given on port 80: the peer is the upstream option on 8080, the
\* template came from the template URL on 3030.
C15_Witness ==
    /\ ~opts.genesis_ceremony
    /\ opts.upstream_peer = Some(Url("peer", 80, ""))
    /\ opts.template_url = Some(Url("tmpl", 80, ""))
    /\ peer = Some(Url("peer", 8080, ""))
    /\ fetched = Some(Url("tmpl", 3030, "account.json"))
    /\ outcome["template"] = "ok"

\* C16: outside the ceremony the batch is signed from sequence number 0 on,
\* and get_autopay_batch returns all or nothing: a failure to resolve the
\* parameters or to sign ends the run with no batch, and a returned batch
\* has a signed transaction for every instruction.
C16_SignedFromZeroAllOrNothing ==
    ~opts.genesis_ceremony =>
        /\ IsSome(signed) =>
              \A k \in 1 .. Len(Unwrap(signed)) : Unwrap(signed)[k].sequence_number = k - 1
        /\ outcome["autopay"] = "failed" =>
              /\ batch = None
              /\ signed = None
              /\ pc = "halted"
              /\ NothingAfter("autopay")
        /\ IsSome(batch) =>
              /\ IsSome(signed)
              /\ Len(Unwrap(signed)) = Len(Unwrap(batch))
        /\ IsSome(signed) => IsSome(batch)

\* The signer failed on a parsed batch of two: nothing was returned.
C16_Witness ==
    /\ ~opts.genesis_ceremony
    /\ IsSome(parsed)
    /\ Unwrap(parsed).ok
    /\ Len(Unwrap(parsed).val) = 2
    /\ calls[Len(calls)] = "sign_instructions"
    /\ pc = "halted"
    /\ batch = None
    /\ signed = None

\* The stage a collaborator call belongs to.
StageOfCall(name) ==
    CASE name = "get_account_from_prompt" -> "credentials"
      [] name = "init_app_configs" -> "config"
      [] name \in { "reqwest_get", "File::create" } -> "template"
      [] name \in { "parse_autopay_instructions", "process_instructions",
                    "get_tx_params_from_toml", "sign_instructions" } -> "autopay"
      [] name = "initialize_validator" -> "keys"
      [] name \in { "get_files", "fs::copy", "write_node_config_files" } -> "genesis"
      [] name = "write_genesis" -> "mining"
      [] name \in { "parse_block_file", "create_manifest" } -> "manifest"

\* C17: every collaborator is called at most once and the calls follow the
\* order of the stages; a stage that has an outcome lies before the stage
\* to run next; the manifest is written once, in a run that then is done,
\* and is the last file written and create_manifest the last call.
C17_StagesOnceInOrder ==
    /\ \A j, k \in 1 .. Len(calls) :
          j < k => /\ calls[j] # calls[k]
                   /\ StageIndex(StageOfCall(calls[j])) <= StageIndex(StageOfCall(calls[k]))
    /\ \A j, k \in 1 .. Len(written) : j < k => written[j] # written[k]
    /\ pc \in StageSet =>
          /\ \A s \in StageSet :
                (outcome[s] # "pending") <=> (StageIndex(s) < StageIndex(pc))
          /\ \A k \in 1 .. Len(calls) : StageIndex(StageOfCall(calls[k])) < StageIndex(pc)
    /\ (Wrote(AccountJsonPath) \/ IsSome(manifest)) =>
          /\ pc = "done"
          /\ status = "ok"
          /\ IsSome(manifest)
          /\ written[Len(written)] = AccountJsonPath
          /\ calls[Len(calls)] = "create_manifest"
    /\ pc = "done" => Wrote(AccountJsonPath)

\* A full run outside the ceremony: every stage ran, the manifest came last.
C17_Witness ==
    /\ pc = "done"
    /\ \A s \in StageSet : outcome[s] = "ok"
    /\ opts.fetch_git_genesis
    /\ written[Len(written)] = AccountJsonPath
    /\ Len(written) = 7

\* Neither genesis flag is set and no prebuilt genesis is given.
NoGenesisSource(o) ==
    ~o.genesis_ceremony /\ ~o.fetch_git_genesis /\ ~o.ci /\ o.prebuilt_genesis = None

\* C18: with no genesis source at all the genesis stage calls
\* write_node_config_files with no genesis path, fetching and copying
\* nothing, and fails only if that call itself fails; when it does not, the
\* run goes on to mining.
C18_AbsentPrebuiltPathProceeds ==
    (NoGenesisSource(opts) /\ outcome["genesis"] # "pending") =>
        /\ Called("write_node_config_files")
        /\ ~Called("get_files")
        /\ ~Called("fs::copy")
        /\ ~Wrote(HomeJoin("genesis.blob"))
        /\ IsSome(nodeFiles)
        /\ Unwrap(nodeFiles).genesis_path = None
        /\ Unwrap(nodeFiles).written <=> outcome["genesis"] = "ok"
        /\ outcome["genesis"] = "ok" =>
              /\ Wrote(HomeJoin("node.yaml"))
              /\ pc \in { "mining", "manifest", "done" } \/ outcome["mining"] = "failed"
                    \/ outcome["manifest"] = "failed"

\* With no genesis source the run mined its block and wrote the manifest.
C18_Witness ==
    /\ NoGenesisSource(opts)
    /\ ~opts.skip_mining
    /\ pc = "done"
    /\ nodeFiles = Some([namespace |-> << "authkey", "-oper" >>, genesis_path |-> None,
                         written |-> TRUE])

\* C19: with fetch_git_genesis set the genesis is fetched and the fixture
\* never copied, ci or not; the path handed to write_node_config_files is
\* <home>/genesis.blob when either flag is set, whatever prebuilt_genesis
\* is, and prebuilt_genesis itself when neither is.
C19_GenesisPriorityAndPath ==
    ~opts.genesis_ceremony =>
        /\ opts.fetch_git_genesis =>
              /\ ~Called("fs::copy")
              /\ outcome["genesis"] # "pending" => Called("get_files")
        /\ ~opts.fetch_git_genesis => ~Called("get_files")
        /\ Called("fs::copy") <=>
              (~opts.fetch_git_genesis /\ opts.ci /\ outcome["genesis"] # "pending")
        /\ IsSome(nodeFiles) =>
              Unwrap(nodeFiles).genesis_path =
                 (IF opts.fetch_git_genesis \/ opts.ci
                  THEN << << "home", "genesis.blob" >> >>
                  ELSE opts.prebuilt_genesis)

\* Both flags and a prebuilt path given: fetched, and the path overridden.
C19_Witness ==
    /\ ~opts.genesis_ceremony
    /\ opts.fetch_git_genesis
    /\ opts.ci
    /\ opts.prebuilt_genesis = Some(CustomGenesisPath)
    /\ outcome["genesis"] = "ok"
    /\ Unwrap(nodeFiles).genesis_path = Some(HomeJoin("genesis.blob"))
    /\ strategies = { "git-fetch" }

\* C20: whenever get_autopay_batch has parsed <home>/template.json, the
\* template stage of this run had succeeded: the GET and the creation of the
\* file precede the parse, and the file holds the served body.
C20_TemplateReadAfterWritten ==
    (readPath = Some(<< "home", "template.json" >>)) =>
        /\ IsSome(opts.template_url)
        /\ opts.autopay_file = None
        /\ outcome["template"] = "ok"
        /\ response = Some("served")
        /\ Wrote(HomeJoin("template.json"))
        /\ disk[HomeJoin("template.json")] = ServedBody
        /\ \E i, j, k \in 1 .. Len(calls) :
              /\ i < j /\ j < k
              /\ calls[i] = "reqwest_get"
              /\ calls[j] = "File::create"
              /\ calls[k] = "parse_autopay_instructions"

\* The fetched template was parsed into a batch of two.
C20_Witness ==
    /\ readPath = Some(HomeJoin("template.json"))
    /\ outcome["template"] = "ok"
    /\ IsSome(batch)
    /\ Len(Unwrap(batch)) = 2

====
